---- MODULE Spec2Model ----
(***************************************************************************)
(* Model of the score contract (src/src/contract.rs, src/src/msg.rs).      *)
(*                                                                         *)
(* The contract keeps two storage regions: the singleton STATE (the owner  *)
(* record) and the keyed map SCORES (user string -> u32).  Its entry points *)
(* are instantiate, execute (UpdateScore) and query (GetOwner, GetScore).  *)
(* Every entry point is an operator from (storage, caller, message) to      *)
(* (storage, result), translated from its code; the actions apply them to   *)
(* the storage, one call at a time.                                         *)
(***************************************************************************)
EXTENDS Integers, Sequences, FiniteSets, TLC

\* ------------------------------------------------------------------------
\* Bounds
\* ------------------------------------------------------------------------

\* scores are u32 in the source; the model draws them from 0..MaxScore
MaxScore == 2

\* the call counter ncalls saturates at MaxCalls (it never blocks a call)
MaxCalls == 3

\* ------------------------------------------------------------------------
\* Values
\* ------------------------------------------------------------------------

\* account identifiers as strings (the ones the tests use)
Users == {"creator", "someone_new", "new_human"}

\* cosmwasm_std::Addr is a wrapper around a String
Addr_unchecked(s) == <<s>>

Addr == {Addr_unchecked(s) : s \in Users}

\* Addr::to_string: the wrapped string
to_string(a) == a[1]

Scores == 0 .. MaxScore

\* Option<T>
None == <<>>

Some(v) == <<v>>

\* Option::unwrap_or_default for u32: the default of u32 is 0
unwrap_or_default(o) == IF o = None THEN 0 ELSE o[1]

\* Option<u32>
OptionScore == {None} \cup {Some(s) : s \in Scores}

\* the closure try_update_score hands to SCORES.update
keep_score == [score \in OptionScore |-> unwrap_or_default(score)]

CONTRACT_NAME == "crates.io:example-terra-contract"

CONTRACT_VERSION == "CARGO_PKG_VERSION"

\* msg.rs
InstantiateMsg == [type |-> "InstantiateMsg"]

UpdateScore(user, score) == [type |-> "UpdateScore", user |-> user, score |-> score]

ExecuteMsg == {UpdateScore(u, s) : u \in Addr, s \in Scores}

GetOwner == [type |-> "GetOwner", user |-> ""]

GetScore(user) == [type |-> "GetScore", user |-> user]

QueryMsg == {GetOwner} \cup {GetScore(u) : u \in Users}

OwnerResponse(owner) == [owner |-> owner]

ScoreResponse(score) == [score |-> score]

\* MessageInfo: the authenticated caller (funds play no part)
MessageInfo(sender) == [sender |-> sender]

\* Response: its attributes (no messages, no data are ever added)
Response_default == [attributes |-> <<>>]

add_attribute(resp, key, value) ==
    [resp EXCEPT !.attributes = Append(@, <<key, value>>)]

\* errors: ContractError::Unauthorized, and the storage layer's
\* StdError::NotFound (the "Uninitialized" condition of a missing item)
Unauthorized == "Unauthorized"

NotFound == "NotFound"

\* Result<T, E>
Ok(v) == [ok |-> TRUE, value |-> v, err |-> ""]

Err(e) == [ok |-> FALSE, value |-> <<>>, err |-> e]

\* to_binary: the JSON object of a response, as its (key, value text) pair
to_binary_owner(r) == <<"owner", to_string(r.owner)>>

to_binary_score(r) == <<"score", ToString(r.score)>>

\* ------------------------------------------------------------------------
\* Storage primitives (cw-storage-plus Item and Map, cw2)
\* ------------------------------------------------------------------------

\* the storage of a contract that was never instantiated
EmptyStorage ==
    [STATE |-> None, SCORES |-> [k \in {} |-> 0], contract_info |-> None]

\* Item::load: the stored value, or NotFound
Item_load(item) == IF item = None THEN Err(NotFound) ELSE Ok(item[1])

\* Item::save
Item_save(item, value) == Some(value)

\* Map::may_load
Map_may_load(map, key) == IF key \in DOMAIN map THEN Some(map[key]) ELSE None

\* Map::save
Map_save(map, key, value) ==
    [k \in DOMAIN map \cup {key} |-> IF k = key THEN value ELSE map[k]]

\* Map::update: load, apply the closure, save what it returns
Map_update(map, key, action) ==
    Map_save(map, key, action[Map_may_load(map, key)])

\* cw2::set_contract_version
set_contract_version(storage, name, version) ==
    [storage EXCEPT !.contract_info =
        Item_save(@, [contract |-> name, version |-> version])]

\* ------------------------------------------------------------------------
\* Entry points
\* ------------------------------------------------------------------------

\* instantiate that keeps an owner record that already exists
instantiate_keeps_owner(storage, info, msg) ==
    LET state == [owner |-> info.sender]
        s1 == set_contract_version(storage, CONTRACT_NAME, CONTRACT_VERSION)
        s2 == IF storage.STATE = None
              THEN [s1 EXCEPT !.STATE = Item_save(@, state)]
              ELSE s1
    IN  [storage |-> s2, result |-> Ok(Response_default)]

\* instantiate that also seeds a score entry for the creator
instantiate_seeds_score(storage, info, msg) ==
    LET state == [owner |-> info.sender]
        s1 == set_contract_version(storage, CONTRACT_NAME, CONTRACT_VERSION)
        s2 == [s1 EXCEPT !.STATE = Item_save(@, state),
                         !.SCORES = Map_save(@, to_string(info.sender), 1)]
    IN  [storage |-> s2, result |-> Ok(Response_default)]

instantiate(storage, info, msg) ==
    LET state == [owner |-> info.sender]
        s1 == set_contract_version(storage, CONTRACT_NAME, CONTRACT_VERSION)
        s2 == [s1 EXCEPT !.STATE = Item_save(@, state)]
    IN  [storage |-> s2, result |-> Ok(Response_default)]

\* the score write of try_update_score, for a caller that passed the check
write_score(storage, key, score) ==
    LET current_score == unwrap_or_default(Map_may_load(storage.SCORES, key))
    IN  IF current_score = 0
        THEN Map_save(storage.SCORES, key, score)
        ELSE Map_update(storage.SCORES, key,
                        keep_score)

\* try_update_score without the comparison of the caller with the owner
try_update_score_noauth(storage, info, user, score) ==
    LET state == Item_load(storage.STATE) IN
    IF ~state.ok
    THEN [storage |-> storage, result |-> Err(state.err)]
    ELSE [storage |-> [storage EXCEPT !.SCORES =
                          write_score(storage, to_string(user), score)],
          result  |-> Ok(add_attribute(Response_default,
                                       "method", "try_update_score"))]

\* try_update_score that writes the score before it compares the caller
try_update_score_write_first(storage, info, user, score) ==
    LET state == Item_load(storage.STATE) IN
    IF ~state.ok
    THEN [storage |-> storage, result |-> Err(state.err)]
    ELSE LET written == [storage EXCEPT !.SCORES =
                            write_score(storage, to_string(user), score)]
         IN  IF info.sender # state.value.owner
             THEN [storage |-> written, result |-> Err(Unauthorized)]
             ELSE [storage |-> written,
                   result  |-> Ok(add_attribute(Response_default,
                                                "method", "try_update_score"))]

\* try_update_score that records the target user as the new owner
try_update_score_takes_ownership(storage, info, user, score) ==
    LET state == Item_load(storage.STATE) IN
    IF ~state.ok
    THEN [storage |-> storage, result |-> Err(state.err)]
    ELSE IF info.sender # state.value.owner
    THEN [storage |-> storage, result |-> Err(Unauthorized)]
    ELSE [storage |-> [storage EXCEPT
                          !.STATE = Item_save(@, [owner |-> user]),
                          !.SCORES = write_score(storage, to_string(user), score)],
          result  |-> Ok(add_attribute(Response_default,
                                       "method", "try_update_score"))]

\* try_update_score with the two branches of the write exchanged
try_update_score_branch_swapped(storage, info, user, score) ==
    LET state == Item_load(storage.STATE) IN
    IF ~state.ok
    THEN [storage |-> storage, result |-> Err(state.err)]
    ELSE IF info.sender # state.value.owner
    THEN [storage |-> storage, result |-> Err(Unauthorized)]
    ELSE
      LET current_score ==
              unwrap_or_default(Map_may_load(storage.SCORES, to_string(user)))
          scores ==
              IF current_score # 0
              THEN Map_save(storage.SCORES, to_string(user), score)
              ELSE Map_update(storage.SCORES, to_string(user),
                              keep_score)
      IN  [storage |-> [storage EXCEPT !.SCORES = scores],
           result  |-> Ok(add_attribute(Response_default,
                                        "method", "try_update_score"))]

\* try_update_score that files the score under the caller, not the user
try_update_score_keyed_by_sender(storage, info, user, score) ==
    LET state == Item_load(storage.STATE) IN
    IF ~state.ok
    THEN [storage |-> storage, result |-> Err(state.err)]
    ELSE IF info.sender # state.value.owner
    THEN [storage |-> storage, result |-> Err(Unauthorized)]
    ELSE [storage |-> [storage EXCEPT !.SCORES =
                          write_score(storage, to_string(info.sender), score)],
          result  |-> Ok(add_attribute(Response_default,
                                       "method", "try_update_score"))]

\* try_update_score that treats a missing owner record as a wrong caller
try_update_score_missing_owner(storage, info, user, score) ==
    LET state == Item_load(storage.STATE) IN
    IF ~state.ok \/ info.sender # state.value.owner
    THEN [storage |-> storage, result |-> Err(Unauthorized)]
    ELSE [storage |-> [storage EXCEPT !.SCORES =
                          write_score(storage, to_string(user), score)],
          result  |-> Ok(add_attribute(Response_default,
                                       "method", "try_update_score"))]

\* try_update_score that stores the score submitted on every call
try_update_score_overwrite(storage, info, user, score) ==
    LET state == Item_load(storage.STATE) IN
    IF ~state.ok
    THEN [storage |-> storage, result |-> Err(state.err)]
    ELSE IF info.sender # state.value.owner
    THEN [storage |-> storage, result |-> Err(Unauthorized)]
    ELSE [storage |-> [storage EXCEPT !.SCORES =
                          Map_save(@, to_string(user), score)],
          result  |-> Ok(add_attribute(Response_default,
                                       "method", "try_update_score"))]

\* try_update_score that adds the score submitted to the stored one
\* (wrapping at the width of the scores)
try_update_score_adds(storage, info, user, score) ==
    LET state == Item_load(storage.STATE) IN
    IF ~state.ok
    THEN [storage |-> storage, result |-> Err(state.err)]
    ELSE IF info.sender # state.value.owner
    THEN [storage |-> storage, result |-> Err(Unauthorized)]
    ELSE
      LET current_score ==
              unwrap_or_default(Map_may_load(storage.SCORES, to_string(user)))
      IN  [storage |-> [storage EXCEPT !.SCORES =
                           Map_save(@, to_string(user),
                                    (current_score + score) % (MaxScore + 1))],
           result  |-> Ok(add_attribute(Response_default,
                                        "method", "try_update_score"))]

\* try_update_score that removes the entry when the score submitted is 0
try_update_score_removes_zero(storage, info, user, score) ==
    LET state == Item_load(storage.STATE) IN
    IF ~state.ok
    THEN [storage |-> storage, result |-> Err(state.err)]
    ELSE IF info.sender # state.value.owner
    THEN [storage |-> storage, result |-> Err(Unauthorized)]
    ELSE
      LET written == write_score(storage, to_string(user), score)
          scores ==
              IF score = 0
              THEN [k \in DOMAIN written \ {to_string(user)} |-> written[k]]
              ELSE written
      IN  [storage |-> [storage EXCEPT !.SCORES = scores],
           result  |-> Ok(add_attribute(Response_default,
                                        "method", "try_update_score"))]

\* try_update_score that chooses the branch by the entry's existence
try_update_score_branch_on_entry(storage, info, user, score) ==
    LET state == Item_load(storage.STATE) IN
    IF ~state.ok
    THEN [storage |-> storage, result |-> Err(state.err)]
    ELSE IF info.sender # state.value.owner
    THEN [storage |-> storage, result |-> Err(Unauthorized)]
    ELSE
      LET scores ==
              IF Map_may_load(storage.SCORES, to_string(user)) = None
              THEN Map_save(storage.SCORES, to_string(user), score)
              ELSE Map_update(storage.SCORES, to_string(user), keep_score)
      IN  [storage |-> [storage EXCEPT !.SCORES = scores],
           result  |-> Ok(add_attribute(Response_default,
                                        "method", "try_update_score"))]

try_update_score(storage, info, user, score) ==
    LET state == Item_load(storage.STATE) IN
    IF ~state.ok
    THEN [storage |-> storage, result |-> Err(state.err)]
    ELSE IF info.sender # state.value.owner
    THEN [storage |-> storage, result |-> Err(Unauthorized)]
    ELSE
      LET current_score ==
              unwrap_or_default(Map_may_load(storage.SCORES, to_string(user)))
          scores ==
              IF current_score = 0
              THEN Map_save(storage.SCORES, to_string(user), score)
              ELSE Map_update(storage.SCORES, to_string(user),
                              keep_score)
      IN  [storage |-> [storage EXCEPT !.SCORES = scores],
           result  |-> Ok(add_attribute(Response_default,
                                        "method", "try_update_score"))]

\* the error of a storage write that failed (a StdError of the storage layer)
WriteFailed == "WriteFailed"

\* try_update_score when the storage refuses every write: SCORES.save and
\* SCORES.update return Err and store nothing.  The result of SCORES.save is
\* dropped (the statement has no ?), the result of SCORES.update is
\* propagated by ?
try_update_score_write_fails(storage, info, user, score) ==
    LET state == Item_load(storage.STATE) IN
    IF ~state.ok
    THEN [storage |-> storage, result |-> Err(state.err)]
    ELSE IF info.sender # state.value.owner
    THEN [storage |-> storage, result |-> Err(Unauthorized)]
    ELSE
      LET current_score ==
              unwrap_or_default(Map_may_load(storage.SCORES, to_string(user)))
      IN  IF current_score = 0
          THEN [storage |-> storage,
                result  |-> Ok(add_attribute(Response_default,
                                             "method", "try_update_score"))]
          ELSE [storage |-> storage, result |-> Err(WriteFailed)]

execute(storage, info, msg) ==
    CASE msg.type = "UpdateScore" ->
           try_update_score(storage, info, msg.user, msg.score)

query_owner(storage) ==
    LET state == Item_load(storage.STATE) IN
    IF ~state.ok THEN Err(state.err)
    ELSE Ok(OwnerResponse(state.value.owner))

\* query_score that loads the entry with load instead of may_load
query_score_load(storage, user) ==
    IF user \in DOMAIN storage.SCORES
    THEN Ok(ScoreResponse(storage.SCORES[user]))
    ELSE Err(NotFound)

query_score(storage, user) ==
    LET score == unwrap_or_default(Map_may_load(storage.SCORES, user))
    IN  Ok(ScoreResponse(score))

query(storage, msg) ==
    CASE msg.type = "GetOwner" ->
           LET r == query_owner(storage) IN
           IF r.ok THEN Ok(to_binary_owner(r.value)) ELSE r
      [] msg.type = "GetScore" ->
           LET r == query_score(storage, msg.user) IN
           IF r.ok THEN Ok(to_binary_score(r.value)) ELSE r

\* the test helper get_score: the score a GetScore query answers
get_score(storage, address) == query_score(storage, address).value.score

\* ------------------------------------------------------------------------
\* State machine: the host calls one entry point at a time
\* ------------------------------------------------------------------------

VARIABLES
    storage,    \* deps.storage: STATE, SCORES and cw2's contract_info
    last,       \* the latest call: entry point, caller, message, result
    ncalls,     \* number of calls made so far, saturating at MaxCalls
    targeted,   \* the users some UpdateScore call has named so far
    instantiator, \* the caller of the latest instantiate call, if any
    write_fault, \* the storage writes of the latest call failed
    repeats,    \* 2 when the latest call repeats the call before it, else 1
    replaced,   \* the owner record the latest call overwrote, when that
                \* call was an instantiate call on an instantiated contract
    first_nonzero \* per user, the first nonzero score an UpdateScore call
                \* that succeeded has submitted (0: none so far)

vars == <<storage, last, ncalls, targeted, instantiator,
          write_fault, repeats, replaced, first_nonzero>>

\* a call as the host made it and the result it got back
Call(entry, sender, type, user, score, result) ==
    [entry |-> entry, sender |-> sender, type |-> type,
     user |-> user, score |-> score,
     ok |-> result.ok, err |-> result.err, value |-> result.value]

NoCall == Call("none", "", "", "", 0, Err(""))

Count(n) == IF n < MaxCalls THEN n + 1 ELSE n

\* the call c is the call d made again: same entry point, caller and message
SameCall(c, d) ==
    /\ c.entry = d.entry
    /\ c.sender = d.sender
    /\ c.type = d.type
    /\ c.user = d.user
    /\ c.score = d.score

Repeats(c) == IF SameCall(c, last) /\ ~write_fault THEN 2 ELSE 1

\* first_nonzero after an UpdateScore(user, score) call with the result ok
Submitted(user, score, ok) ==
    IF ok /\ score # 0 /\ first_nonzero[user] = 0
    THEN [first_nonzero EXCEPT ![user] = score]
    ELSE first_nonzero

Init ==
    /\ storage = EmptyStorage
    /\ last = NoCall
    /\ ncalls = 0
    /\ targeted = {}
    /\ instantiator = None
    /\ write_fault = FALSE
    /\ repeats = 1
    /\ replaced = None
    /\ first_nonzero = [u \in Users |-> 0]

Instantiate ==
    \E sender \in Addr :
        LET r == instantiate(storage, MessageInfo(sender), InstantiateMsg) IN
        /\ storage' = r.storage
        /\ last' = Call("instantiate", to_string(sender), "InstantiateMsg",
                        "", 0, Ok(r.result.value.attributes))
        /\ ncalls' = Count(ncalls)
        /\ instantiator' = Some(sender)
        /\ write_fault' = FALSE
        /\ repeats' = Repeats(last')
        /\ replaced' = IF storage.STATE = None THEN None
                       ELSE Some(storage.STATE[1].owner)
        /\ UNCHANGED <<targeted, first_nonzero>>

Execute ==
    \E sender \in Addr, msg \in ExecuteMsg :
        LET r == execute(storage, MessageInfo(sender), msg) IN
        /\ storage' = r.storage
        /\ last' = Call("execute", to_string(sender), msg.type,
                        to_string(msg.user), msg.score,
                        IF r.result.ok
                        THEN Ok(r.result.value.attributes)
                        ELSE r.result)
        /\ ncalls' = Count(ncalls)
        /\ targeted' = targeted \cup {to_string(msg.user)}
        /\ write_fault' = FALSE
        /\ repeats' = Repeats(last')
        /\ first_nonzero' =
              Submitted(to_string(msg.user), msg.score, r.result.ok)
        /\ replaced' = None
        /\ UNCHANGED instantiator

\* an UpdateScore call during which the storage refuses every write
ExecuteWriteFails ==
    \E sender \in Addr, msg \in ExecuteMsg :
        LET r == try_update_score_write_fails(
                     storage, MessageInfo(sender), msg.user, msg.score) IN
        /\ storage' = r.storage
        /\ last' = Call("execute", to_string(sender), msg.type,
                        to_string(msg.user), msg.score,
                        IF r.result.ok
                        THEN Ok(r.result.value.attributes)
                        ELSE r.result)
        /\ ncalls' = Count(ncalls)
        /\ targeted' = targeted \cup {to_string(msg.user)}
        /\ write_fault' = TRUE
        /\ repeats' = 1
        /\ replaced' = None
        /\ UNCHANGED <<instantiator, first_nonzero>>

\* a query whose GetScore stores the default for a user without an entry
Query_materialises ==
    \E msg \in QueryMsg :
        LET r == query(storage, msg) IN
        /\ storage' = IF msg.type = "GetScore"
                      THEN [storage EXCEPT !.SCORES =
                               Map_update(@, msg.user,
                                          keep_score)]
                      ELSE storage
        /\ last' = Call("query", "", msg.type, msg.user, 0, r)
        /\ ncalls' = Count(ncalls)
        /\ write_fault' = FALSE
        /\ repeats' = Repeats(last')
        /\ replaced' = None
        /\ UNCHANGED <<targeted, instantiator, first_nonzero>>

Query ==
    \E msg \in QueryMsg :
        LET r == query(storage, msg) IN
        /\ last' = Call("query", "", msg.type, msg.user, 0, r)
        /\ ncalls' = Count(ncalls)
        /\ write_fault' = FALSE
        /\ repeats' = Repeats(last')
        /\ replaced' = None
        /\ UNCHANGED <<storage, targeted, instantiator, first_nonzero>>

Next == Instantiate \/ Execute \/ Query

Spec == Init /\ [][Next]_vars

\* the same contract on a storage whose writes may fail during UpdateScore
NextFault == Instantiate \/ Execute \/ Query \/ ExecuteWriteFails

SpecFault == Init /\ [][NextFault]_vars

\* ------------------------------------------------------------------------
\* Shorthands for the properties
\* ------------------------------------------------------------------------

\* the owner record exists
Instantiated == storage.STATE # None

\* the recorded owner, as the string of its address (when Instantiated)
OwnerString == to_string(storage.STATE[1].owner)

\* the step is a call of UpdateScore
ExecuteStep == last'.entry = "execute" /\ last'.type = "UpdateScore"

\* the step is a call of UpdateScore by the owner recorded before the step
OwnerExecuteStep ==
    ExecuteStep /\ Instantiated /\ last'.sender = OwnerString

\* the latest call was an UpdateScore that succeeded
LastExecuteOk == last.entry = "execute" /\ last.ok

\* GetScore(user) succeeds on storage s and answers score
ScoreIs(s, user, score) ==
    LET r == query_score(s, user) IN r.ok /\ r.value.score = score

\* GetOwner and every GetScore answer the same on storages s and t
SameAnswers(s, t) ==
    /\ query(s, GetOwner) = query(t, GetOwner)
    /\ \A u \in Users : query(s, GetScore(u)) = query(t, GetScore(u))

\* ------------------------------------------------------------------------
\* Properties
\* ------------------------------------------------------------------------

\* C1: overwrite semantics.  When the owner calls UpdateScore(u, s1) and then
\* UpdateScore(u, s2) with s1 # s2, GetScore(u) answers s2 afterwards.
C1_Overwrite ==
    [][(LastExecuteOk /\ OwnerExecuteStep /\ last'.ok
          /\ last'.user = last.user /\ last'.score # last.score)
        => ScoreIs(storage', last'.user, last'.score)]_vars

\* C2: authorization gate, rejection side.  On an instantiated contract an
\* UpdateScore by a caller other than the recorded owner fails with
\* Unauthorized, leaves the whole storage (owner record and score mapping) as
\* it was, and the calls after it (every query, and the owner's UpdateScore
\* for the same user) answer as they would have without that call.
C2_UnauthorizedRejected ==
    [][(ExecuteStep /\ Instantiated /\ last'.sender # OwnerString)
        => /\ ~last'.ok
           /\ last'.err = Unauthorized
           /\ storage'.SCORES = storage.SCORES
           /\ storage'.STATE = storage.STATE
           /\ storage' = storage
           /\ SameAnswers(storage', storage)
           /\ \A score \in Scores :
                 LET info == MessageInfo(storage.STATE[1].owner)
                     m == UpdateScore(Addr_unchecked(last'.user), score)
                 IN  execute(storage', info, m) = execute(storage, info, m)]_vars

\* C2 witness: a stranger's UpdateScore was rejected while a score is stored
C2_Witness ==
    /\ last.entry = "execute"
    /\ ~last.ok
    /\ last.err = Unauthorized
    /\ Instantiated
    /\ last.sender # OwnerString
    /\ \E u \in Users : ScoreIs(storage, u, 1)
    /\ ~ScoreIs(storage, last.user, last.score)

\* C3: invariant I2.  A step that changes the score mapping is a successful
\* UpdateScore whose caller is the owner recorded at that moment; no
\* instantiate, no query and no failed execute changes the score mapping.
C3_MutationAuthorized ==
    [][/\ storage'.SCORES # storage.SCORES
            => OwnerExecuteStep /\ last'.ok
       /\ (last'.entry \in {"instantiate", "query"} \/ ~last'.ok)
            => storage'.SCORES = storage.SCORES]_vars

\* C3 witness: the second call, an UpdateScore by the owner, stored a score
C3_Witness ==
    /\ ncalls = 2
    /\ LastExecuteOk
    /\ last.sender = OwnerString
    /\ last.score > 0
    /\ DOMAIN storage.SCORES = {last.user}
    /\ storage.SCORES[last.user] = last.score

\* C4: ownership persistence.  After an instantiate by A, GetOwner answers A,
\* at once and after every later execute and query call; no execute and no
\* query changes the owner record.
C4_OwnershipPersistence ==
    /\ [](instantiator # None =>
            LET r == query_owner(storage) IN
            r.ok /\ r.value.owner = instantiator[1])
    /\ [][(last'.entry \in {"execute", "query"})
            => storage'.STATE = storage.STATE]_vars

\* C4 witness: after instantiate, a successful and then a rejected UpdateScore
\* for another user, the owner is still the instantiator
C4_Witness ==
    /\ instantiator # None
    /\ last.entry = "execute"
    /\ ~last.ok
    /\ last.err = Unauthorized
    /\ \E u \in Users : u # OwnerString /\ ScoreIs(storage, u, 1)
    /\ storage.STATE = Some([owner |-> instantiator[1]])

\* C5: first write.  When the owner calls UpdateScore(u, s) for a user u
\* without a stored entry, the call succeeds and GetScore(u) answers s.
C5_FirstWrite ==
    [][(OwnerExecuteStep /\ last'.user \notin DOMAIN storage.SCORES)
        => last'.ok /\ ScoreIs(storage', last'.user, last'.score)]_vars

\* C5 witness: right after instantiate the owner wrote a first nonzero score
\* for a user other than itself
C5_Witness ==
    /\ ncalls = 2
    /\ LastExecuteOk
    /\ last.user # last.sender
    /\ last.score > 1
    /\ ScoreIs(storage, last.user, last.score)

\* C6: default read.  GetScore succeeds and answers 0 for every user that no
\* UpdateScore call has named.
C6_DefaultRead ==
    \A u \in Users \ targeted : ScoreIs(storage, u, 0)

\* C6 witness: a GetScore for a never-named user answered 0 while another
\* user holds a score
C6_Witness ==
    /\ last.entry = "query"
    /\ last.type = "GetScore"
    /\ last.user \notin targeted
    /\ last.ok
    /\ last.value = <<"score", "0">>
    /\ \E u \in targeted : ScoreIs(storage, u, 1)

\* C7: isolation across keys.  An UpdateScore(u1, s) by any caller leaves
\* GetScore(u2) as it was for every u2 # u1; and after instantiate, the owner's
\* UpdateScore(u1, a) and then UpdateScore(u2, b), GetScore(u1) answers a and
\* GetScore(u2) answers b.
C7_Isolation ==
    [][/\ ExecuteStep
            => \A u2 \in Users \ {last'.user} :
                  query_score(storage', u2) = query_score(storage, u2)
       /\ (ncalls = 2 /\ LastExecuteOk /\ OwnerExecuteStep
             /\ last'.user # last.user)
            => /\ ScoreIs(storage', last.user, last.score)
               /\ ScoreIs(storage', last'.user, last'.score)]_vars

\* C7 witness: the third call; two users hold the two different scores the
\* owner wrote one after the other
C7_Witness ==
    /\ ncalls = 3
    /\ LastExecuteOk
    /\ Cardinality(DOMAIN storage.SCORES) = 2
    /\ \E u1 \in DOMAIN storage.SCORES :
          /\ u1 # last.user
          /\ storage.SCORES[u1] > 0
          /\ storage.SCORES[u1] # last.score
    /\ ScoreIs(storage, last.user, last.score)
    /\ last.score > 0

\* C8: UpdateScore before instantiation.  Without an owner record every
\* UpdateScore fails with the storage-load failure NotFound, never with
\* Unauthorized and never with success, and the score mapping stays empty.
C8_ExecuteUninitialized ==
    [][(ExecuteStep /\ ~Instantiated)
        => /\ ~last'.ok
           /\ last'.err = NotFound
           /\ DOMAIN storage.SCORES = {}
           /\ DOMAIN storage'.SCORES = {}]_vars

\* C8 witness: an UpdateScore with a nonzero score failed with NotFound
C8_Witness ==
    /\ ~Instantiated
    /\ last.entry = "execute"
    /\ last.score > 0
    /\ ~last.ok
    /\ last.err = NotFound

\* C9: query failure modes.  GetOwner fails, with NotFound, exactly when no
\* instantiate call has been made, and answers the owner otherwise; GetScore
\* never fails, and answers 0 for every user before instantiation.
C9_QueryFailureModes ==
    /\ query_owner(storage).ok <=> instantiator # None
    /\ ~query_owner(storage).ok => query_owner(storage).err = NotFound
    /\ query_owner(storage).ok =>
          query_owner(storage).value.owner = instantiator[1]
    /\ \A u \in Users : query_score(storage, u).ok
    /\ instantiator = None => \A u \in Users : ScoreIs(storage, u, 0)
    /\ (last.entry = "query" /\ last.type = "GetScore") => last.ok
    /\ (last.entry = "query" /\ last.type = "GetOwner")
          => (last.ok <=> instantiator # None)

\* C9 witness: before instantiation a GetScore for a user that an UpdateScore
\* had named answered 0
C9_Witness ==
    /\ instantiator = None
    /\ last.entry = "query"
    /\ last.type = "GetScore"
    /\ last.user \in targeted
    /\ last.ok
    /\ last.value = <<"score", "0">>
    /\ ~query_owner(storage).ok

\* C10: queries are read-only.  A GetOwner or GetScore call, succeeding or
\* failing, leaves the owner record and the whole score mapping unchanged, so
\* every other call answers as it would have without the query.
C10_QueryReadOnly ==
    [][last'.entry = "query"
        => /\ storage' = storage
           /\ \A a \in Addr, m \in ExecuteMsg :
                 execute(storage', MessageInfo(a), m)
                   = execute(storage, MessageInfo(a), m)]_vars

\* C10 witness: a GetScore for a user without an entry, on a contract that
\* holds a score for another user, left no entry behind
C10_Witness ==
    /\ last.entry = "query"
    /\ last.type = "GetScore"
    /\ last.user \notin DOMAIN storage.SCORES
    /\ Instantiated
    /\ \E u \in DOMAIN storage.SCORES : storage.SCORES[u] > 0

\* C11: a storage-write failure is never swallowed.  When the write of the
\* score entry fails during an UpdateScore by the owner, on the new-entry path
\* or on the existing-entry path, the call fails and the score mapping and the
\* owner record are as before the call.
C11_WriteFailureSurfaced ==
    [][(OwnerExecuteStep /\ write_fault')
        => /\ ~last'.ok
           /\ storage'.SCORES = storage.SCORES
           /\ storage'.STATE = storage.STATE]_vars

\* the storage s with a stored entry of value 0 for user u
WithZero(s, u) == [s EXCEPT !.SCORES = Map_save(@, u, 0)]

\* the storage s without the entry of user u
WithoutEntry(s, u) ==
    [s EXCEPT !.SCORES = [k \in DOMAIN @ \ {u} |-> @[k]]]

\* two results are the same response: both Ok with one value, or both the
\* same error
SameResult(r1, r2) ==
    /\ r1.ok = r2.ok
    /\ r1.err = r2.err
    /\ r1.ok => r1.value = r2.value

\* s and t are equal, or equal except that u has no entry in s and the
\* entry 0 in t
AbsentOrZero(s, t, u) ==
    \/ s = t
    \/ u \notin DOMAIN s.SCORES /\ t = WithZero(s, u)

\* every call gets the same response on s and on t, and leaves two storages
\* that again differ at most in u being absent or 0
SameBehaviour(s, t, u) ==
    /\ \A a \in Addr :
          LET x == instantiate(s, MessageInfo(a), InstantiateMsg)
              y == instantiate(t, MessageInfo(a), InstantiateMsg)
          IN  SameResult(x.result, y.result)
                /\ AbsentOrZero(x.storage, y.storage, u)
    /\ \A a \in Addr, m \in ExecuteMsg :
          LET x == execute(s, MessageInfo(a), m)
              y == execute(t, MessageInfo(a), m)
          IN  SameResult(x.result, y.result)
                /\ AbsentOrZero(x.storage, y.storage, u)
    /\ \A q \in QueryMsg : SameResult(query(s, q), query(t, q))

\* C12: invariant I3, absent equals zero.  Two storages that are equal except
\* that user u has no entry in one and the entry 0 in the other answer every
\* call alike, and after the call they again differ at most in that way (so
\* every sequence of calls gets the same responses on both).
C12_AbsentEqualsZero ==
    \A u \in Users :
        /\ u \notin DOMAIN storage.SCORES
              => SameBehaviour(storage, WithZero(storage, u), u)
        /\ (u \in DOMAIN storage.SCORES /\ storage.SCORES[u] = 0)
              => SameBehaviour(WithoutEntry(storage, u), storage, u)

\* C12 witness: the owner stored the entry 0 for a user, next to a user
\* without an entry and a user with a nonzero score
C12_Witness ==
    /\ LastExecuteOk
    /\ last.score = 0
    /\ last.user \in DOMAIN storage.SCORES
    /\ storage.SCORES[last.user] = 0
    /\ \E v \in Users : v \notin DOMAIN storage.SCORES
    /\ \E w \in DOMAIN storage.SCORES : storage.SCORES[w] > 0

\* the users with a stored score entry
Keys(s) == DOMAIN s.SCORES

\* C13: lazy creation and no deletion.  No user has a stored entry before the
\* first call; no call removes an entry; only a successful UpdateScore by the
\* owner adds one; and a successful UpdateScore(u, s) by the owner leaves
\* exactly the entries there were, and one for u.
C13_LazyCreationNoDeletion ==
    /\ [](ncalls = 0 => Keys(storage) = {})
    /\ [][/\ Keys(storage) \subseteq Keys(storage')
          /\ Keys(storage') # Keys(storage)
                => OwnerExecuteStep /\ last'.ok
          /\ (OwnerExecuteStep /\ last'.ok)
                => Keys(storage') = Keys(storage) \cup {last'.user}]_vars

\* C13 witness: the owner's UpdateScore with the score 0 created the second
\* entry, for a user other than the owner
C13_Witness ==
    /\ ncalls = 3
    /\ LastExecuteOk
    /\ last.score = 0
    /\ last.user # last.sender
    /\ Cardinality(Keys(storage)) = 2
    /\ last.user \in Keys(storage)
    /\ \E u \in Keys(storage) : storage.SCORES[u] > 0

\* C14: idempotent set.  From every reachable state, the owner's
\* UpdateScore(u, s) made twice in a row leaves the owner record and the score
\* mapping exactly as the same call made once.
C14_IdempotentSet ==
    /\ [](Instantiated =>
            \A m \in ExecuteMsg :
                LET info == MessageInfo(storage.STATE[1].owner)
                    once == execute(storage, info, m)
                    twice == execute(once.storage, info, m)
                IN  /\ once.result.ok
                    /\ twice.result.ok
                    /\ twice.storage = once.storage)
    /\ [][(OwnerExecuteStep /\ repeats' = 2 /\ last.ok)
            => last'.ok /\ storage' = storage]_vars

\* C14 witness: the owner made the same UpdateScore call a second time, with
\* a nonzero score that is the one stored
C14_Witness ==
    /\ repeats = 2
    /\ LastExecuteOk
    /\ last.sender = OwnerString
    /\ last.score > 0
    /\ ScoreIs(storage, last.user, last.score)

\* C15, as claimed: the owner record is never reassigned.  An instantiate
\* call on an instantiated contract by an identity other than the recorded
\* owner leaves the owner record, and what GetOwner answers, as they were.
C15_OwnerNeverReassigned ==
    [][(Instantiated /\ last'.entry = "instantiate"
          /\ last'.sender # OwnerString)
        => /\ storage'.STATE = storage.STATE
           /\ query_owner(storage') = query_owner(storage)]_vars

\* C15, amended: the owner record is written by instantiate and by nothing
\* else.  Every instantiate call, also one on an instantiated contract by an
\* identity B other than the recorded owner, succeeds and makes its caller
\* the owner: GetOwner answers B, B passes the authorization check of
\* UpdateScore and every other identity fails it; the score mapping is left
\* as it was.
C15_OwnerSetByInstantiateOnly ==
    [][/\ storage'.STATE # storage.STATE => last'.entry = "instantiate"
       /\ last'.entry = "instantiate"
            => /\ last'.ok
               /\ query_owner(storage').ok
               /\ to_string(query_owner(storage').value.owner) = last'.sender
               /\ storage'.SCORES = storage.SCORES
               /\ \A a \in Addr, m \in ExecuteMsg :
                     LET r == execute(storage', MessageInfo(a), m).result
                     IN  IF to_string(a) = last'.sender
                         THEN r.ok
                         ELSE ~r.ok /\ r.err = Unauthorized]_vars

\* C15 witness: an instantiate call replaced the owner record of another
\* identity, on a contract that holds a score
C15_Witness ==
    /\ last.entry = "instantiate"
    /\ replaced # None
    /\ to_string(replaced[1]) # last.sender
    /\ OwnerString = last.sender
    /\ \E u \in DOMAIN storage.SCORES : storage.SCORES[u] > 0

\* C16, as claimed: once a user has a stored entry, whatever its value, every
\* later UpdateScore for that user by the owner succeeds and changes nothing,
\* so the stored value stays the one the first write stored.
C16_NoOpOnceStored ==
    [][(OwnerExecuteStep /\ last'.user \in Keys(storage))
        => last'.ok /\ storage'.SCORES = storage.SCORES]_vars

\* C16, amended: once a user has a stored entry with a nonzero value, every
\* later UpdateScore for that user by the owner succeeds and changes nothing;
\* a stored entry of value 0 is replaced, like a missing one, by the score of
\* the next UpdateScore for that user by the owner.
C16_NoOpOnceNonzero ==
    [][(OwnerExecuteStep /\ last'.user \in Keys(storage))
        => /\ last'.ok
           /\ storage.SCORES[last'.user] # 0 => storage' = storage
           /\ storage.SCORES[last'.user] = 0
                => storage'.SCORES =
                     [storage.SCORES EXCEPT ![last'.user] = last'.score]]_vars

\* C16 witness: the owner's UpdateScore with a nonzero score succeeded on a
\* user that holds another nonzero score, and that score is still stored
C16_Witness ==
    /\ LastExecuteOk
    /\ last.sender = OwnerString
    /\ last.score > 0
    /\ last.user \in Keys(storage)
    /\ storage.SCORES[last.user] > 0
    /\ storage.SCORES[last.user] # last.score

\* C17: write-once for nonzero scores.  Where GetScore(u) is nonzero, no call
\* of any entry point by any caller changes it; and GetScore(u) is always the
\* first nonzero score a successful UpdateScore (one by the owner) submitted
\* for u, or 0 when there has been none.
C17_WriteOnceNonzero ==
    /\ [](\A u \in Users : ScoreIs(storage, u, first_nonzero[u]))
    /\ [][\A u \in Users :
            get_score(storage, u) # 0
              => get_score(storage', u) = get_score(storage, u)]_vars

\* C17 witness: the owner's UpdateScore with the score 0 succeeded on a user
\* that holds a nonzero score, the first one submitted, and it is still there
C17_Witness ==
    /\ LastExecuteOk
    /\ last.score = 0
    /\ get_score(storage, last.user) # 0
    /\ first_nonzero[last.user] = get_score(storage, last.user)
    /\ \E u \in Keys(storage) : storage.SCORES[u] = 0

====
